---- MODULE Spec2Model ----
(***************************************************************************)
(* Relevance filter of the used-car search service.                        *)
(*                                                                         *)
(* CarService.search_cars (api/services/car_service.py) filters the raw    *)
(* listings of the marketplace feed with _matches_filters and, when        *)
(* nothing passes, filters them once more with year and mileage cleared.   *)
(* Python strings are TLA+ strings; Optional[T] is <<>> (None) or <<v>>;   *)
(* a dynamically typed payload value is a record tagged none/int/str.      *)
(***************************************************************************)
EXTENDS Integers, Sequences, FiniteSets, TLC

VARIABLES request, listings, details, sourceFails,
          pc, i, car_listings, relaxed_request, raised,
          run, passes, resIdx, evals, firstResult, verdict

vars == <<request, listings, details, sourceFails,
          pc, i, car_listings, relaxed_request, raised,
          run, passes, resIdx, evals, firstResult, verdict>>

(***************************************************************************)
(* Python values                                                           *)
(***************************************************************************)
None == <<>>

Some(v) == <<v>>

\* truthiness of an Optional[str]: None and "" are falsy
TruthyStr(o) == o # None /\ o[1] # ""

\* truthiness of an Optional[int]: None and 0 are falsy
TruthyInt(o) == o # None /\ o[1] # 0

\* a payload value as the detail source delivers it
PyNone == [t |-> "none", n |-> 0, s |-> ""]

PyInt(k) == [t |-> "int", n |-> k, s |-> ""]

PyStr(x) == [t |-> "str", n |-> 0, s |-> x]

\* bool(value) of a payload value
Truthy(v) ==
    CASE v.t = "none" -> FALSE
      [] v.t = "int"  -> v.n # 0
      [] v.t = "str"  -> v.s # ""

(***************************************************************************)
(* Python string operations                                                *)
(***************************************************************************)
LowerChars == "abcdefghijklmnopqrstuvwxyz"

UpperChars == "ABCDEFGHIJKLMNOPQRSTUVWXYZ"

Digits == "0123456789"

CharAt(s, k) == SubSeq(s, k, k)

LowerSet == {CharAt(LowerChars, k) : k \in 1..Len(LowerChars)}

UpperSet == {CharAt(UpperChars, k) : k \in 1..Len(UpperChars)}

DigitSet == {CharAt(Digits, k) : k \in 1..Len(Digits)}

\* the upper-case letter of each lower-case letter
UpperOf ==
    [c \in LowerSet |->
        CharAt(UpperChars, CHOOSE k \in 1..Len(LowerChars) : CharAt(LowerChars, k) = c)]

\* the value of each decimal digit
DigitValue == [c \in DigitSet |-> (CHOOSE k \in 1..Len(Digits) : CharAt(Digits, k) = c) - 1]

UpperChar(c) == IF c \in LowerSet THEN UpperOf[c] ELSE c

\* str.upper()
RECURSIVE Upper(_)
Upper(s) == IF s = "" THEN "" ELSE UpperChar(CharAt(s, 1)) \o Upper(SubSeq(s, 2, Len(s)))

\* sub in s
Contains(sub, s) ==
    \E k \in 0..(Len(s) - Len(sub)) : SubSeq(s, k + 1, k + Len(sub)) = sub

\* s.replace(old, new), old non-empty: leftmost non-overlapping occurrences
RECURSIVE Replace(_, _, _)
Replace(s, old, new) ==
    IF Len(s) < Len(old) THEN s
    ELSE IF SubSeq(s, 1, Len(old)) = old
         THEN new \o Replace(SubSeq(s, Len(old) + 1, Len(s)), old, new)
         ELSE CharAt(s, 1) \o Replace(SubSeq(s, 2, Len(s)), old, new)

IsSpace(c) == c = " "

\* str.strip()
RECURSIVE Strip(_)
Strip(s) ==
    IF s = "" THEN ""
    ELSE IF IsSpace(CharAt(s, 1)) THEN Strip(SubSeq(s, 2, Len(s)))
    ELSE IF IsSpace(CharAt(s, Len(s))) THEN Strip(SubSeq(s, 1, Len(s) - 1))
    ELSE s

IsDigitChar(c) == c \in DigitSet

\* str.isdigit()
IsDigit(s) == s # "" /\ \A k \in 1..Len(s) : IsDigitChar(CharAt(s, k))

\* value of a string of decimal digits
RECURSIVE DigitsValue(_)
DigitsValue(s) ==
    IF s = "" THEN 0
    ELSE 10 * DigitsValue(SubSeq(s, 1, Len(s) - 1)) + DigitValue[CharAt(s, Len(s))]

\* an optional sign and decimal digits
ParseSigned(t) ==
    IF t # "" /\ CharAt(t, 1) = "-"
    THEN (IF IsDigit(SubSeq(t, 2, Len(t))) THEN Some(0 - DigitsValue(SubSeq(t, 2, Len(t)))) ELSE None)
    ELSE IF t # "" /\ CharAt(t, 1) = "+"
    THEN (IF IsDigit(SubSeq(t, 2, Len(t))) THEN Some(DigitsValue(SubSeq(t, 2, Len(t)))) ELSE None)
    ELSE (IF IsDigit(t) THEN Some(DigitsValue(t)) ELSE None)

\* int(s): <<n>> when s parses, <<>> when int() raises ValueError
ParseInt(s) == ParseSigned(Strip(s))

\* str(n) of a non-negative integer
RECURSIVE IntToStr(_)
IntToStr(n) ==
    IF n < 10 THEN CharAt(Digits, n + 1)
    ELSE IntToStr(n \div 10) \o CharAt(Digits, (n % 10) + 1)

\* the class [A-Z0-9] of the model pattern
IsAlnumChar(c) == c \in UpperSet \/ IsDigitChar(c)

\* re.findall(r'[A-Z0-9]+', s): the maximal runs, left to right
RECURSIVE FindAll(_, _)
FindAll(s, cur) ==
    IF s = "" THEN (IF cur = "" THEN <<>> ELSE <<cur>>)
    ELSE IF IsAlnumChar(CharAt(s, 1))
         THEN FindAll(SubSeq(s, 2, Len(s)), cur \o CharAt(s, 1))
         ELSE (IF cur = "" THEN <<>> ELSE <<cur>>) \o FindAll(SubSeq(s, 2, Len(s)), "")

\* max(seq, key=len) of a non-empty list: the first of the longest
MaxByLen(seq) ==
    LET k == CHOOSE k \in 1..Len(seq) :
                 /\ \A j \in 1..Len(seq) : Len(seq[j]) <= Len(seq[k])
                 /\ \A j \in 1..(k-1) : Len(seq[j]) < Len(seq[k])
    IN  seq[k]

(***************************************************************************)
(* Keyword extractor                                                       *)
(***************************************************************************)
common_makes ==
    << "MERCEDES", "BENZ", "MERCEDES-BENZ", "HONDA", "TOYOTA", "FORD",
       "BMW", "AUDI", "LEXUS", "ACURA", "INFINITI", "NISSAN", "CHEVROLET",
       "CHEVY", "DODGE", "JEEP", "CHRYSLER", "GMC", "CADILLAC", "LINCOLN" >>

\* the make loop from entry k on: the first list entry contained in the
\* query, the loop breaking there
RECURSIVE ScanMakes(_, _)
ScanMakes(query_upper, k) ==
    IF k > Len(common_makes) THEN None
    ELSE IF Contains(common_makes[k], query_upper) THEN Some(common_makes[k])
    ELSE ScanMakes(query_upper, k + 1)

\* where sub first occurs in s, counted from 0; Len(s) when it does not
FirstPos(sub, s) ==
    IF Contains(sub, s)
    THEN CHOOSE k \in 0..(Len(s) - Len(sub)) :
           /\ SubSeq(s, k + 1, k + Len(sub)) = sub
           /\ \A j \in 0..(k - 1) : SubSeq(s, j + 1, j + Len(sub)) # sub
    ELSE Len(s)

\* variant: the make that occurs first in the text wins, not the first of
\* the list
ExtractMake_FirstInText(query_upper) ==
    IF \A k \in 1..Len(common_makes) : ~Contains(common_makes[k], query_upper)
    THEN None
    ELSE Some(common_makes[CHOOSE k \in 1..Len(common_makes) :
                 /\ Contains(common_makes[k], query_upper)
                 /\ \A j \in 1..Len(common_makes) :
                      \/ FirstPos(common_makes[k], query_upper) < FirstPos(common_makes[j], query_upper)
                      \/ /\ FirstPos(common_makes[k], query_upper) = FirstPos(common_makes[j], query_upper)
                         /\ k <= j])

ExtractMake(query_upper) == ScanMakes(query_upper, 1)

\* variant: four-digit numbers are kept as model candidates
IsModelCandidate_KeepsYears(p) == TRUE

IsModelCandidate(p) == ~IsDigit(p) \/ Len(p) # 4

\* [p for p in model_patterns if not p.isdigit() or len(p) != 4]
RECURSIVE ModelCandidates(_)
ModelCandidates(seq) ==
    IF seq = <<>> THEN <<>>
    ELSE (IF IsModelCandidate(Head(seq)) THEN <<Head(seq)>> ELSE <<>>)
         \o ModelCandidates(Tail(seq))

\* the longest candidate, None when there is none
LongestCandidate(model_candidates) ==
    IF model_candidates # <<>> THEN Some(MaxByLen(model_candidates)) ELSE None

\* the query without the make token and without hyphens, stripped
QueryWithoutMake(query_upper, make) ==
    IF make # None
    THEN Strip(Replace(Replace(query_upper, make[1], ""), "-", ""))
    ELSE query_upper

ExtractModel(query_upper, make) ==
    LongestCandidate(ModelCandidates(FindAll(QueryWithoutMake(query_upper, make), "")))

Keywords(query_upper, make) == [make |-> make, model |-> ExtractModel(query_upper, make)]

KeywordsOfUpper(query_upper) == Keywords(query_upper, ExtractMake(query_upper))

extract_keywords_from_query(query) == KeywordsOfUpper(Upper(query))

(***************************************************************************)
(* Request, listing and attribute models (api/models.py)                   *)
(***************************************************************************)
\* CarSearchRequest.get_query(): the query, or the empty default
GetQuery(req) == IF TruthyStr(req.query) THEN req.query[1] ELSE ""

\* the year / miles coercion of VehicleAttributes.from_dict: a truthy str is
\* parsed, to the integer or to None when int() raises; every other value,
\* the falsy "" and 0 included, is kept as it is
CoerceInt(v) ==
    IF Truthy(v) /\ v.t = "str"
    THEN (IF ParseInt(v.s) # None THEN PyInt(ParseInt(v.s)[1]) ELSE PyNone)
    ELSE v

\* validation of an Optional[int] field by the VehicleAttributes
\* constructor: a str that is no integer is rejected (ValidationError)
RejectsInt(p) == p.t = "str" /\ ParseInt(p.s) = None

\* the value of an Optional[int] field the constructor accepted
FieldInt(p) ==
    CASE p.t = "none" -> None
      [] p.t = "int"  -> Some(p.n)
      [] p.t = "str"  -> ParseInt(p.s)

\* a str-typed payload field handed to the model unchanged
PassStr(v) == IF v.t = "str" THEN Some(v.s) ELSE None

\* the vehicleAttributes dict of a detail payload: the four fields the
\* filter reads (a missing key reads as None) and whether the dict has any
\* key at all
EmptyDict ==
    [ vehicleYear |-> PyNone, vehicleMake |-> PyNone, vehicleModel |-> PyNone,
      vehicleMiles |-> PyNone, nonempty |-> FALSE ]

\* bool(vehicle_attrs) of an Optional[dict]
TruthyDict(data) == data # None /\ data[1].nonempty

\* VehicleAttributes.from_dict(data) raises: the constructor rejects the
\* coerced year or the coerced miles
FromDictRaises(data) ==
    /\ TruthyDict(data)
    /\ \/ RejectsInt(CoerceInt(data[1].vehicleYear))
       \/ RejectsInt(CoerceInt(data[1].vehicleMiles))

\* VehicleAttributes.from_dict(data) when it returns
FromDict(data) ==
    IF ~TruthyDict(data) THEN None
    ELSE Some([ year  |-> FieldInt(CoerceInt(data[1].vehicleYear)),
                make  |-> PassStr(data[1].vehicleMake),
                model |-> PassStr(data[1].vehicleModel),
                miles |-> FieldInt(CoerceInt(data[1].vehicleMiles)) ])

\* CarService._convert_listing_to_model: <<CarListing>>, or <<>> when the
\* CarListing constructor rejects the raw record (title is not a str)
ConvertListingToModel(listing) ==
    IF listing.title = None THEN None
    ELSE Some([ listing_id |-> listing.listingId,
                title |-> listing.title[1],
                vehicle_attributes |-> None ])

(***************************************************************************)
(* Title matcher                                                           *)
(***************************************************************************)
parts_keywords ==
    << "PART", "SHELL", "PANEL", "DOOR", "BUMPER", "FENDER", "HOOD", "TRUNK",
       "SEAT", "WHEEL", "RIM", "HEADLIGHT", "TAILLIGHT", "OEM", "DRIVER REAR" >>

\* variant: only the four keywords of the any-year fallback of the search script
IsPart_FourKeywords(title_upper) ==
    \E k \in 1..4 : Contains(parts_keywords[k], title_upper)

IsPart(title_upper) ==
    \E k \in 1..Len(parts_keywords) : Contains(parts_keywords[k], title_upper)

NoKeywords == [make |-> None, model |-> None]

\* variant: a value inferred from the query wins over the explicit field
Fallback_PrefersInferred(explicit, inferred) ==
    IF TruthyStr(inferred) THEN inferred ELSE explicit

\* the explicit field unless it is missing and the query gave a value
Fallback(explicit, inferred) ==
    IF ~TruthyStr(explicit) /\ TruthyStr(inferred) THEN inferred ELSE explicit

PickToCheck(req, kw) ==
    [make |-> Fallback(req.make, kw.make), model |-> Fallback(req.model, kw.model)]

\* the query is parsed only when make or model is missing and it is non-empty
QueryKeywords(req, query_str) ==
    IF (~TruthyStr(req.make) \/ ~TruthyStr(req.model)) /\ query_str # ""
    THEN extract_keywords_from_query(query_str)
    ELSE NoKeywords

\* make_to_check / model_to_check: explicit field, else inferred from the query
ToCheck(req) == PickToCheck(req, QueryKeywords(req, GetQuery(req)))

mercedes_aliases == {"MERCEDES", "MERCEDES-BENZ", "BENZ"}

\* variant: no alias group, the make itself has to be in the text
MakeIn_NoAliases(make_upper, text) == Contains(make_upper, text)

\* the make test, applied to the title and to the resolved make alike
MakeIn(make_upper, text) ==
    IF make_upper \in mercedes_aliases
    THEN Contains("MERCEDES", text) \/ Contains("BENZ", text)
    ELSE Contains(make_upper, text)

HasMake(make_to_check, title_upper) ==
    TruthyStr(make_to_check) /\ MakeIn(Upper(make_to_check[1]), title_upper)

\* variant: the model is looked for as given only
model_variations_AsGiven(model_upper) == << model_upper >>

model_variations(model_upper) ==
    << model_upper,
       Replace(model_upper, " ", ""),
       Replace(model_upper, "-", ""),
       Replace(model_upper, " ", "-"),
       Replace(model_upper, "-", " ") >>

AnyIn(variations, title_upper) ==
    \E k \in 1..Len(variations) : Contains(variations[k], title_upper)

HasModel(model_to_check, title_upper) ==
    /\ TruthyStr(model_to_check)
    /\ AnyIn(model_variations(Upper(model_to_check[1])), title_upper)

HasYear(req, title) ==
    TruthyInt(req.year) /\ Contains(IntToStr(req.year[1]), title)

HasMilesBound(req) == req.max_miles # None \/ req.min_miles # None

HasExplicitFilters(req, tc) ==
    \/ TruthyStr(req.make) \/ TruthyStr(req.model) \/ TruthyInt(req.year)
    \/ req.max_miles # None \/ req.min_miles # None
    \/ TruthyStr(tc.make) \/ TruthyStr(tc.model)

(***************************************************************************)
(* Attribute resolver                                                      *)
(***************************************************************************)
\* variant: a mileage bound alone does not make the fetch necessary
NeedsDetails_TitleFirst(req, tc, has_make, has_model, has_year) ==
    IF (TruthyStr(tc.make) /\ ~has_make) \/ (TruthyStr(tc.model) /\ ~has_model) THEN TRUE
    ELSE IF TruthyInt(req.year) /\ ~has_year THEN TRUE
    ELSE FALSE

\* variant: the details are fetched whenever a filter is active
NeedsDetails_Always(req, tc, has_make, has_model, has_year) == TRUE

NeedsDetails(req, tc, has_make, has_model, has_year) ==
    IF HasMilesBound(req) THEN TRUE
    ELSE IF (TruthyStr(tc.make) /\ ~has_make) \/ (TruthyStr(tc.model) /\ ~has_model) THEN TRUE
    ELSE IF TruthyInt(req.year) /\ ~has_year THEN TRUE
    ELSE FALSE

NoAttrs ==
    [ vehicle_attrs |-> None, vehicle_year |-> PyNone, vehicle_make |-> None,
      vehicle_model |-> None, vehicle_miles |-> PyNone ]

\* raw.upper() if raw else None
UpperOrNone(v) == IF Truthy(v) THEN Some(Upper(v.s)) ELSE None

\* the try block around fetch.get_listing_details; d is the answer of the
\* detail source for the listing
ResolveDetails(d) ==
    IF d.kind = "ok"
    THEN IF TruthyDict(d.va)
         THEN [ vehicle_attrs |-> d.va,
                vehicle_year  |-> d.va[1].vehicleYear,
                vehicle_make  |-> UpperOrNone(d.va[1].vehicleMake),
                vehicle_model |-> UpperOrNone(d.va[1].vehicleModel),
                vehicle_miles |-> d.va[1].vehicleMiles ]
         ELSE [NoAttrs EXCEPT !.vehicle_attrs = d.va]
    ELSE NoAttrs

(***************************************************************************)
(* Match evaluator                                                         *)
(***************************************************************************)
\* int(v) if isinstance(v, str) else v: <<n>>, or <<>> on ValueError
AsInt(v) == IF v.t = "str" THEN ParseInt(v.s) ELSE Some(v.n)

\* the year comparison: on the parsed integer, or on the strings when
\* int() raised
SameYear(year, vehicle_year, parsed) ==
    IF parsed # None THEN parsed[1] = year ELSE vehicle_year.s = IntToStr(year)

YearMatch(req, has_year, vehicle_year) ==
    IF TruthyInt(req.year)
    THEN IF has_year THEN TRUE
         ELSE IF Truthy(vehicle_year)
              THEN SameYear(req.year[1], vehicle_year, AsInt(vehicle_year))
              ELSE FALSE
    ELSE TRUE

MakeMatch(make_to_check, has_make, vehicle_make) ==
    IF TruthyStr(make_to_check)
    THEN IF has_make THEN TRUE
         ELSE IF TruthyStr(vehicle_make)
              THEN MakeIn(Upper(make_to_check[1]), vehicle_make[1])
              ELSE FALSE
    ELSE TRUE

ModelMatch(model_to_check, has_model, vehicle_model) ==
    IF TruthyStr(model_to_check)
    THEN IF has_model THEN TRUE
         ELSE IF TruthyStr(vehicle_model)
              THEN IF Contains("CLS", Upper(model_to_check[1]))
                   THEN \/ Contains("CLS63", vehicle_model[1])
                        \/ Contains("CLS 63", vehicle_model[1])
                        \/ Contains("CLS-63", vehicle_model[1])
                   ELSE Contains(Upper(model_to_check[1]), vehicle_model[1])
              ELSE FALSE
    ELSE TRUE

\* variant: only the lower bound is tested
WithinBounds_MinOnly(req, miles) ==
    \/ miles = None
    \/ ~(req.min_miles # None /\ miles[1] < req.min_miles[1])

\* the two bound tests on the parsed mileage; an unparsable mileage passes
WithinBounds(req, miles) ==
    \/ miles = None
    \/ /\ ~(req.max_miles # None /\ miles[1] > req.max_miles[1])
       /\ ~(req.min_miles # None /\ miles[1] < req.min_miles[1])

MilesMatch(req, vehicle_miles) ==
    IF vehicle_miles.t # "none" THEN WithinBounds(req, AsInt(vehicle_miles)) ELSE TRUE

\* the early return on a definite mileage mismatch
MilesExcluded(req, vehicle_miles) ==
    HasMilesBound(req) /\ vehicle_miles.t # "none" /\ ~MilesMatch(req, vehicle_miles)

\* variant: a requested year that is neither in the title nor confirmed by
\* the attributes rejects the listing
Decide_StrictYear(req, r, year_match, make_match, model_match) ==
    IF /\ Truthy(r.vehicle_year) /\ TruthyStr(r.vehicle_make) /\ TruthyStr(r.vehicle_model)
       /\ year_match /\ make_match /\ model_match
    THEN [result |-> TRUE, attach |-> TRUE]
    ELSE IF make_match /\ model_match
    THEN IF TruthyInt(req.year) /\ ~year_match
         THEN [result |-> FALSE, attach |-> FALSE]
         ELSE [result |-> TRUE, attach |-> TruthyDict(r.vehicle_attrs)]
    ELSE [result |-> FALSE, attach |-> FALSE]

\* variant: a listing is accepted on its title only when attributes were
\* resolved
Decide_RequiresAttributes(req, r, year_match, make_match, model_match) ==
    IF /\ Truthy(r.vehicle_year) /\ TruthyStr(r.vehicle_make) /\ TruthyStr(r.vehicle_model)
       /\ year_match /\ make_match /\ model_match
    THEN [result |-> TRUE, attach |-> TRUE]
    ELSE IF make_match /\ model_match /\ TruthyDict(r.vehicle_attrs)
    THEN IF TruthyInt(req.year) /\ r.vehicle_year.t # "none" /\ ~year_match
         THEN [result |-> FALSE, attach |-> FALSE]
         ELSE [result |-> TRUE, attach |-> TRUE]
    ELSE [result |-> FALSE, attach |-> FALSE]

\* variant: a listing accepted on its title keeps no attributes
Decide_TitleBranchDropsAttrs(req, r, year_match, make_match, model_match) ==
    IF /\ Truthy(r.vehicle_year) /\ TruthyStr(r.vehicle_make) /\ TruthyStr(r.vehicle_model)
       /\ year_match /\ make_match /\ model_match
    THEN [result |-> TRUE, attach |-> TRUE]
    ELSE IF make_match /\ model_match
    THEN IF TruthyInt(req.year) /\ r.vehicle_year.t # "none" /\ ~year_match
         THEN [result |-> FALSE, attach |-> FALSE]
         ELSE [result |-> TRUE, attach |-> FALSE]
    ELSE [result |-> FALSE, attach |-> FALSE]

\* the decision once mileage has not excluded the listing:
\* [result, attach], attach saying whether from_dict(vehicle_attrs) is stored
Decide(req, r, year_match, make_match, model_match) ==
    IF /\ Truthy(r.vehicle_year) /\ TruthyStr(r.vehicle_make) /\ TruthyStr(r.vehicle_model)
       /\ year_match /\ make_match /\ model_match
    THEN [result |-> TRUE, attach |-> TRUE]
    ELSE IF make_match /\ model_match
    THEN IF TruthyInt(req.year) /\ r.vehicle_year.t # "none" /\ ~year_match
         THEN [result |-> FALSE, attach |-> FALSE]
         ELSE [result |-> TRUE, attach |-> TruthyDict(r.vehicle_attrs)]
    ELSE [result |-> FALSE, attach |-> FALSE]

Verdict(res, attrs, fetched) ==
    [result |-> res, vehicle_attributes |-> attrs, fetched |-> fetched, raises |-> FALSE]

\* _matches_filters left by an exception: nothing is returned and nothing
\* was stored on the listing
Raised(attrs, fetched) ==
    [result |-> FALSE, vehicle_attributes |-> attrs, fetched |-> fetched, raises |-> TRUE]

\* the end of _matches_filters: the return value and the attributes stored;
\* from_dict is called before the return and may raise
Conclude(listing, r, dec, needs_details) ==
    IF dec.attach /\ FromDictRaises(r.vehicle_attrs)
    THEN Raised(listing.vehicle_attributes, needs_details)
    ELSE Verdict(dec.result,
                 IF dec.attach THEN FromDict(r.vehicle_attrs) ELSE listing.vehicle_attributes,
                 needs_details)

\* the part of _matches_filters after the detail fetch: the four matches,
\* the mileage exclusion and the decision
AfterDetails(listing, req, tc, has_make, has_model, has_year, needs_details, r) ==
    IF MilesExcluded(req, r.vehicle_miles)
    THEN Verdict(FALSE, listing.vehicle_attributes, needs_details)
    ELSE Conclude(listing, r,
                  Decide(req, r, YearMatch(req, has_year, r.vehicle_year),
                         MakeMatch(tc.make, has_make, r.vehicle_make),
                         ModelMatch(tc.model, has_model, r.vehicle_model)),
                  needs_details)

\* the detail fetch, made only when needs_details
WithDetails(listing, req, tc, has_make, has_model, has_year, needs_details, d) ==
    AfterDetails(listing, req, tc, has_make, has_model, has_year, needs_details,
                 IF needs_details THEN ResolveDetails(d) ELSE NoAttrs)

\* the part of _matches_filters after the title matching
AfterTitle(listing, req, d, tc, has_make, has_model, has_year) ==
    IF ~HasExplicitFilters(req, tc)
    THEN Verdict(TRUE, listing.vehicle_attributes, FALSE)
    ELSE WithDetails(listing, req, tc, has_make, has_model, has_year,
                     NeedsDetails(req, tc, has_make, has_model, has_year), d)

\* the part of _matches_filters after the parts exclusion
AfterParts(listing, req, d, title_upper, tc) ==
    AfterTitle(listing, req, d, tc, HasMake(tc.make, title_upper),
               HasModel(tc.model, title_upper), HasYear(req, listing.title))

\* variant: the details are fetched before the parts exclusion
FilterTitle_FetchBeforeParts(listing, req, d, title_upper) ==
    IF IsPart(title_upper)
    THEN Verdict(FALSE, listing.vehicle_attributes, TRUE)
    ELSE AfterParts(listing, req, d, title_upper, ToCheck(req))

FilterTitle(listing, req, d, title_upper) ==
    IF IsPart(title_upper)
    THEN Verdict(FALSE, listing.vehicle_attributes, FALSE)
    ELSE AfterParts(listing, req, d, title_upper, ToCheck(req))

\* CarService._matches_filters(listing, request); d is what
\* fetch.get_listing_details answers for this listing.  The verdict carries
\* the returned bool, listing.vehicle_attributes afterwards and whether the
\* detail fetch was called.
MatchesFilters(listing, req, d) == FilterTitle(listing, req, d, Upper(listing.title))

(***************************************************************************)
(* The older evaluator kept in api/routers/health.py                       *)
(***************************************************************************)
\* the three title tests: an explicit make, model or year that the title
\* lacks rejects the listing
OldTitleOk(listing, req, title_upper) ==
    /\ TruthyStr(req.make) => Contains(Upper(req.make[1]), title_upper)
    /\ TruthyStr(req.model) => Contains(Upper(req.model[1]), title_upper)
    /\ TruthyInt(req.year) => Contains(IntToStr(req.year[1]), listing.title)

\* int(miles) of a truthy mileage
OldMilesInt(miles) == AsInt(miles)

\* the mileage test returns False: a truthy mileage that reads as an
\* integer outside the bounds
OldMilesReject(req, miles) ==
    /\ Truthy(miles)
    /\ OldMilesInt(miles) # None
    /\ \/ req.max_miles # None /\ OldMilesInt(miles)[1] > req.max_miles[1]
       \/ req.min_miles # None /\ OldMilesInt(miles)[1] < req.min_miles[1]

\* the try block raises before the attributes are stored: int(miles)
\* raises, or the VehicleAttributes constructor rejects the raw year
OldStoreRaises(va) ==
    \/ Truthy(va.vehicleMiles) /\ OldMilesInt(va.vehicleMiles) = None
    \/ RejectsInt(va.vehicleYear)

\* the attributes the older evaluator stores
OldAttributes(va) ==
    Some([ year  |-> FieldInt(va.vehicleYear),
           make  |-> PassStr(va.vehicleMake),
           model |-> PassStr(va.vehicleModel),
           miles |-> IF Truthy(va.vehicleMiles) THEN OldMilesInt(va.vehicleMiles) ELSE None ])

\* the mileage part: the details are fetched under a mileage bound only
OldWithDetails(listing, req, d) ==
    IF ~HasMilesBound(req)
    THEN Verdict(TRUE, listing.vehicle_attributes, FALSE)
    ELSE IF d.kind # "ok" \/ ~TruthyDict(d.va)
    THEN Verdict(TRUE, listing.vehicle_attributes, TRUE)
    ELSE IF OldMilesReject(req, d.va[1].vehicleMiles)
    THEN Verdict(FALSE, listing.vehicle_attributes, TRUE)
    ELSE IF OldStoreRaises(d.va[1])
    THEN Verdict(TRUE, listing.vehicle_attributes, TRUE)
    ELSE Verdict(TRUE, OldAttributes(d.va[1]), TRUE)

OldFilterTitle(listing, req, d, title_upper) ==
    IF ~OldTitleOk(listing, req, title_upper)
    THEN Verdict(FALSE, listing.vehicle_attributes, FALSE)
    ELSE OldWithDetails(listing, req, d)

\* CarService._matches_filters of api/routers/health.py
OldMatchesFilters(listing, req, d) == OldFilterTitle(listing, req, d, Upper(listing.title))

(***************************************************************************)
(* Inputs                                                                  *)
(***************************************************************************)
\* longest raw listing sequence explored
MaxListings == 2

\* a request with every pass-through field set to a non-default value
BaseRequest ==
    [ query |-> None, state |-> Some("Texas"), city |-> Some("Dallas"),
      lat |-> None, lon |-> None, limit |-> 25, pickup_distance |-> 100,
      price_min |-> Some(1000), price_max |-> Some(90000), sort |-> "price",
      delivery |-> "s", conditions |-> <<"USED">>,
      year |-> None, make |-> None, model |-> None,
      max_miles |-> None, min_miles |-> None ]

MakeRequest(q, mk, md, y, mx, mn) ==
    [BaseRequest EXCEPT !.query = q, !.make = mk, !.model = md, !.year = y,
                        !.max_miles = mx, !.min_miles = mn]

Attrs(y, mk, md, mi) ==
    [ vehicleYear |-> y, vehicleMake |-> mk, vehicleModel |-> md,
      vehicleMiles |-> mi, nonempty |-> TRUE ]

\* answers of fetch.get_listing_details: it raises, returns nothing, returns
\* a payload without 'data' or without 'listing', or a listing payload whose
\* vehicleAttributes is va
Failure(kind) == [kind |-> kind, va |-> None]

Payload(va) == [kind |-> "ok", va |-> va]

FailureKinds == {"exception", "falsy", "no_data", "no_listing"}

ListingId(k) == "L" \o IntToStr(k)

RawListing(k, title) == [listingId |-> ListingId(k), title |-> title]

\* requests of the search runs
SearchRequests ==
    { MakeRequest(q, mm[1], mm[2], y, mx, None) :
        q \in {None, Some("CLS63 Mercedes 2014"), Some("Honda Civic")},
        mm \in {<<None, None>>, <<Some("Mercedes-Benz"), Some("CLS63")>>},
        y \in {None, Some(2014)},
        mx \in {None, Some(30000)} }

\* kinds of raw listing of the search runs: a title and the detail answer
ListingKinds ==
    { [title |-> Some("2014 Mercedes CLS63"), d |-> Failure("exception")],
      [title |-> Some("2014 Mercedes CLS63"),
       d |-> Payload(Some(Attrs(PyInt(2014), PyStr("Mercedes-Benz"), PyStr("CLS63"), PyInt(45000))))],
      [title |-> Some("2016 Mercedes CLS63 AMG"),
       d |-> Payload(Some(Attrs(PyStr("2016"), PyStr("Mercedes-Benz"), PyStr("CLS63"), PyStr("20000"))))],
      [title |-> Some("OEM Bumper CLS63 Mercedes 2014"),
       d |-> Payload(Some(Attrs(PyInt(2014), PyStr("Mercedes-Benz"), PyStr("CLS63"), PyInt(20000))))],
      [title |-> Some("2020 Honda Civic LX"),
       d |-> Payload(Some(Attrs(PyInt(2020), PyStr("Honda"), PyStr("Civic"), PyInt(45000))))],
      [title |-> Some("Mercedes CLS63 AMG"),
       d |-> Payload(Some(Attrs(PyStr("2014"), PyStr("Mercedes-Benz"), PyStr("CLS63"), PyStr(""))))],
      [title |-> None, d |-> Failure("falsy")] }

\* requests, titles and detail answers of the single evaluations
EvalRequests ==
    { MakeRequest(q, mk, md, y, mb[1], mb[2]) :
        q \in {None, Some("CLS63 Mercedes 2014"), Some("Honda Civic"), Some("2014")},
        mk \in {None, Some("Mercedes-Benz")},
        md \in {None, Some("CLS63")},
        y \in {None, Some(2014)},
        mb \in {<<None, None>>, <<Some(30000), None>>, <<None, Some(40000)>>} }
    \cup { MakeRequest(None, Some("Mercedes-Benz"), Some("CLS550"), y, None, None) :
             y \in {None, Some(2014)} }

EvalTitles ==
    { "2014 Mercedes-Benz CLS 63 AMG", "2014 Mercedes CLS63", "Mercedes CLS63 AMG",
      "2020 Honda Civic LX", "OEM Bumper CLS63", "Clean sedan" }

EvalDetails ==
    { Failure(k) : k \in FailureKinds }
    \cup { Payload(None), Payload(Some(EmptyDict)) }
    \cup { Payload(Some(Attrs(y, mk, md, mi))) :
             y \in {PyNone, PyInt(2014), PyInt(2015), PyStr("2014"), PyStr("abc"), PyStr("")},
             mk \in {PyNone, PyStr("Mercedes-Benz"), PyStr("Honda")},
             md \in {PyNone, PyStr("CLS63 AMG"), PyStr("Civic")},
             mi \in {PyNone, PyInt(30000), PyInt(45000), PyStr("45000"), PyStr("n/a"), PyStr("")} }
    \cup { Payload(Some(Attrs(y, PyStr("Mercedes-Benz"), PyStr("CLS550"), PyNone))) :
             y \in {PyNone, PyInt(2014)} }

(***************************************************************************)
(* CarService.search_cars as a process                                     *)
(***************************************************************************)
\* the criteria, the raw listings of the listing source and what the detail
\* source answers for each listing id
SearchInputs ==
    /\ request \in SearchRequests
    /\ \E n \in 0..MaxListings :
         \E ks \in [1..n -> ListingKinds] :
           /\ listings = [k \in 1..n |-> RawListing(k, ks[k].title)]
           /\ details = [id \in {ListingId(k) : k \in 1..n} |->
                            ks[CHOOSE k \in 1..n : ListingId(k) = id].d]

Init ==
    /\ SearchInputs
    /\ sourceFails \in BOOLEAN
    /\ pc = "start"
    /\ i = 1
    /\ car_listings = <<>>
    /\ relaxed_request = None
    /\ raised = FALSE
    /\ run = 1
    /\ passes = 0
    /\ resIdx = <<>>
    /\ evals = <<>>
    /\ firstResult = None
    /\ verdict = None

\* variant: the list outlives the call
FreshList_KeepsOld(old) == old

\* car_listings = [] at the start of the filtering: the list of a call
\* holds nothing of an earlier call
FreshList(old) == <<>>

\* the listing source answers: it raises (re-raised by search_cars), or
\* returns the raw listings; no listings returns [] at once
FetchListings ==
    /\ pc = "start"
    /\ IF sourceFails
       THEN /\ raised' = TRUE /\ pc' = "done" /\ passes' = passes
            /\ UNCHANGED <<car_listings, resIdx>>
       ELSE IF listings = <<>>
       THEN /\ raised' = raised /\ pc' = "done" /\ passes' = passes
            /\ car_listings' = <<>> /\ resIdx' = <<>>
       ELSE /\ raised' = raised /\ pc' = "strict" /\ passes' = passes + 1
            /\ car_listings' = FreshList(car_listings) /\ resIdx' = <<>>
    /\ UNCHANGED <<request, listings, details, sourceFails, i,
                   relaxed_request, run, evals, firstResult, verdict>>

\* the branch on the bool _matches_filters returned for listings[i]:
\* append the converted listing, as the evaluation left it, or drop it; an
\* exception out of _matches_filters is caught and the listing is skipped
AccumulateAt(pass, idx, car_listing, v) ==
    /\ evals' = Append(evals, [pass |-> pass, idx |-> idx, result |-> v.result,
                               fetched |-> v.fetched, raises |-> v.raises])
    /\ IF v.result
       THEN /\ car_listings' = Append(car_listings,
                  [car_listing EXCEPT !.vehicle_attributes = v.vehicle_attributes])
            /\ resIdx' = Append(resIdx, idx)
       ELSE UNCHANGED <<car_listings, resIdx>>

Accumulate(pass, car_listing, v) == AccumulateAt(pass, i, car_listing, v)

\* variant: every evaluation is handed the detail answer of the first
\* listing
DetailsOf_First(listing_id) == details[ListingId(1)]

\* fetch.get_listing_details(listing.listing_id): the answer for the
\* listing's own id
DetailsOf(listing_id) == details[listing_id]

\* the try block of one iteration: conv is the converted listing, or None
\* when the conversion raised and the listing is skipped
TryListing(pass, conv, req) ==
    IF conv = None
    THEN UNCHANGED <<car_listings, resIdx, evals>>
    ELSE Accumulate(pass, conv[1],
                    MatchesFilters(conv[1], req, DetailsOf(conv[1].listing_id)))

\* one iteration of a filtering loop over listings[i] with criteria req
LoopBody(pass, req) ==
    /\ TryListing(pass, ConvertListingToModel(listings[i]), req)
    /\ i' = i + 1

StrictStep ==
    /\ pc = "strict"
    /\ i <= Len(listings)
    /\ LoopBody("strict", request)
    /\ UNCHANGED <<request, listings, details, sourceFails, pc, relaxed_request,
                   raised, run, passes, firstResult, verdict>>

\* variant: the relaxed copy loses the model
RelaxedRequest_DropsModel(req) ==
    [ query |-> req.query, state |-> req.state, city |-> req.city,
      lat |-> req.lat, lon |-> req.lon, limit |-> req.limit,
      pickup_distance |-> req.pickup_distance, price_min |-> req.price_min,
      price_max |-> req.price_max, sort |-> req.sort, delivery |-> req.delivery,
      conditions |-> req.conditions, make |-> req.make, model |-> None,
      year |-> None, max_miles |-> None, min_miles |-> None ]

\* variant: the relaxed copy keeps the year
RelaxedRequest_KeepsYear(req) ==
    [ query |-> req.query, state |-> req.state, city |-> req.city,
      lat |-> req.lat, lon |-> req.lon, limit |-> req.limit,
      pickup_distance |-> req.pickup_distance, price_min |-> req.price_min,
      price_max |-> req.price_max, sort |-> req.sort, delivery |-> req.delivery,
      conditions |-> req.conditions, make |-> req.make, model |-> req.model,
      year |-> req.year, max_miles |-> None, min_miles |-> None ]

\* the relaxed copy of the request
RelaxedRequest(req) ==
    [ query |-> req.query, state |-> req.state, city |-> req.city,
      lat |-> req.lat, lon |-> req.lon, limit |-> req.limit,
      pickup_distance |-> req.pickup_distance, price_min |-> req.price_min,
      price_max |-> req.price_max, sort |-> req.sort, delivery |-> req.delivery,
      conditions |-> req.conditions, make |-> req.make, model |-> req.model,
      year |-> None, max_miles |-> None, min_miles |-> None ]

\* variant: the relaxed pass is never started
ShouldRelax_Never(accepted, raw) == FALSE

\* variant: the relaxed pass starts whenever there are raw listings
ShouldRelax_IgnoresAccepted(accepted, raw) == Len(raw) > 0

\* the test that starts the relaxed pass
ShouldRelax(accepted, raw) == Len(accepted) = 0 /\ Len(raw) > 0

Relax ==
    /\ pc = "strict"
    /\ i > Len(listings)
    /\ IF ShouldRelax(car_listings, listings)
       THEN /\ relaxed_request' = Some(RelaxedRequest(request))
            /\ pc' = "relaxed"
            /\ i' = 1
            /\ passes' = passes + 1
       ELSE /\ pc' = "return"
            /\ UNCHANGED <<relaxed_request, i, passes>>
    /\ UNCHANGED <<request, listings, details, sourceFails, car_listings, raised,
                   run, resIdx, evals, firstResult, verdict>>

RelaxedStep ==
    /\ pc = "relaxed"
    /\ i <= Len(listings)
    /\ LoopBody("relaxed", relaxed_request[1])
    /\ UNCHANGED <<request, listings, details, sourceFails, pc, relaxed_request,
                   raised, run, passes, firstResult, verdict>>

Return ==
    /\ \/ pc = "return"
       \/ pc = "relaxed" /\ i > Len(listings)
    /\ pc' = "done"
    /\ UNCHANGED <<request, listings, details, sourceFails, i, car_listings,
                   relaxed_request, raised, run, passes, resIdx, evals,
                   firstResult, verdict>>

\* the caller searches a second time with the same request, while the
\* listing source and the detail source answer as before
SearchAgain ==
    /\ pc = "done"
    /\ run = 1
    /\ ~raised
    /\ firstResult' = Some(car_listings)
    /\ run' = 2
    /\ pc' = "start"
    /\ i' = 1
    /\ relaxed_request' = None
    /\ passes' = 0
    /\ evals' = <<>>
    /\ UNCHANGED <<request, listings, details, sourceFails, raised, verdict,
                   car_listings, resIdx>>

Next ==
    \/ FetchListings
    \/ StrictStep
    \/ Relax
    \/ RelaxedStep
    \/ Return
    \/ SearchAgain

Spec == Init /\ [][Next]_vars

(***************************************************************************)
(* The strict filtering with the listings evaluated in any order           *)
(***************************************************************************)
AnyInit ==
    /\ SearchInputs
    /\ sourceFails = FALSE
    /\ pc = "anyorder"
    /\ i = 1
    /\ car_listings = <<>>
    /\ relaxed_request = None
    /\ raised = FALSE
    /\ run = 1
    /\ passes = 1
    /\ resIdx = <<>>
    /\ evals = <<>>
    /\ firstResult = None
    /\ verdict = None

\* the raw listings handled so far, accepted, rejected or skipped
Handled == { evals[k].idx : k \in 1..Len(evals) }

\* the loop body on raw listing k, whatever was handled before it
AnyListing(k, conv) ==
    IF conv = None
    THEN /\ evals' = Append(evals, [pass |-> "skipped", idx |-> k, result |-> FALSE,
                                    fetched |-> FALSE, raises |-> TRUE])
         /\ UNCHANGED <<car_listings, resIdx>>
    ELSE AccumulateAt("strict", k, conv[1],
                      MatchesFilters(conv[1], request, DetailsOf(conv[1].listing_id)))

EvaluateAny ==
    /\ pc = "anyorder"
    /\ \E k \in (1..Len(listings)) \ Handled :
         AnyListing(k, ConvertListingToModel(listings[k]))
    /\ UNCHANGED <<request, listings, details, sourceFails, pc, i, relaxed_request,
                   raised, run, passes, firstResult, verdict>>

AnyNext == EvaluateAny

SpecAnyOrder == AnyInit /\ [][AnyNext]_vars

(***************************************************************************)
(* One evaluation of _matches_filters on every combination of inputs      *)
(***************************************************************************)
EvalInit ==
    /\ request \in EvalRequests
    /\ \E t \in EvalTitles : listings = <<RawListing(1, Some(t))>>
    /\ \E d \in EvalDetails : details = [id \in {ListingId(1)} |-> d]
    /\ sourceFails = FALSE
    /\ pc = "eval"
    /\ i = 1
    /\ car_listings = <<>>
    /\ relaxed_request = None
    /\ raised = FALSE
    /\ run = 1
    /\ passes = 0
    /\ resIdx = <<>>
    /\ evals = <<>>
    /\ firstResult = None
    /\ verdict = None

Evaluate ==
    /\ pc = "eval"
    /\ verdict' = Some(MatchesFilters(ConvertListingToModel(listings[1])[1], request,
                                      details[ListingId(1)]))
    /\ pc' = "evaluated"
    /\ UNCHANGED <<request, listings, details, sourceFails, i, car_listings,
                   relaxed_request, raised, run, passes, resIdx, evals, firstResult>>

EvalNext == Evaluate

SpecEval == EvalInit /\ [][EvalNext]_vars

(***************************************************************************)
(* One call of VehicleAttributes.from_dict on every payload                *)
(***************************************************************************)
\* year and mileage values of the payloads normalised
NormValues ==
    { PyNone, PyInt(0), PyInt(2014), PyInt(45000), PyStr("2014"), PyStr("45000"),
      PyStr(" 2014 "), PyStr("-5"), PyStr("abc"), PyStr("20x4"), PyStr("") }

NormPayloads ==
    { None, Some(EmptyDict) }
    \cup { Some(Attrs(y, mk, PyStr("CLS63"), mi)) :
             y \in NormValues, mk \in {PyNone, PyStr("Mercedes-Benz")}, mi \in NormValues }

NormInit ==
    /\ request = BaseRequest
    /\ listings = <<>>
    /\ \E data \in NormPayloads : details = [id \in {ListingId(1)} |-> Payload(data)]
    /\ sourceFails = FALSE
    /\ pc = "from_dict"
    /\ i = 1
    /\ car_listings = <<>>
    /\ relaxed_request = None
    /\ raised = FALSE
    /\ run = 1
    /\ passes = 0
    /\ resIdx = <<>>
    /\ evals = <<>>
    /\ firstResult = None
    /\ verdict = None

\* from_dict returns the attributes object (or None), or raises
Normalize ==
    /\ pc = "from_dict"
    /\ IF FromDictRaises(details[ListingId(1)].va)
       THEN verdict' = Some(Raised(None, FALSE))
       ELSE verdict' = Some(Verdict(TRUE, FromDict(details[ListingId(1)].va), FALSE))
    /\ pc' = "normalized"
    /\ UNCHANGED <<request, listings, details, sourceFails, i, car_listings,
                   relaxed_request, raised, run, passes, resIdx, evals, firstResult>>

NormNext == Normalize

SpecNorm == NormInit /\ [][NormNext]_vars

(***************************************************************************)
(* One call of _extract_keywords_from_query on every query                 *)
(***************************************************************************)
MakeWords ==
    { "", "Mercedes", "Mercedes-Benz", "benz", "HONDA", "Chevy", "Chevrolet", "Bmw",
      "Honda Benz" }

ModelWords ==
    { "", "CLS63", "cls 63 amg", "Civic", "2014", "F-150", "C300", "X5 2019", "E-350 van" }

ExtractQueries ==
    { mk \o " " \o md : mk \in MakeWords, md \in ModelWords }
    \cup { md \o " " \o mk : mk \in MakeWords, md \in ModelWords }
    \cup { "" }

ExtractInit ==
    /\ \E q \in ExtractQueries :
         request = MakeRequest(Some(q), None, None, None, None, None)
    /\ listings = <<>>
    /\ details = <<>>
    /\ sourceFails = FALSE
    /\ pc = "extract"
    /\ i = 1
    /\ car_listings = <<>>
    /\ relaxed_request = None
    /\ raised = FALSE
    /\ run = 1
    /\ passes = 0
    /\ resIdx = <<>>
    /\ evals = <<>>
    /\ firstResult = None
    /\ verdict = None

\* the call returns the pair (make, model)
Extract ==
    /\ pc = "extract"
    /\ verdict' = Some(extract_keywords_from_query(request.query[1]))
    /\ pc' = "extracted"
    /\ UNCHANGED <<request, listings, details, sourceFails, i, car_listings,
                   relaxed_request, raised, run, passes, resIdx, evals, firstResult>>

ExtractNext == Extract

SpecExtract == ExtractInit /\ [][ExtractNext]_vars

(***************************************************************************)
(* The title matching of _matches_filters on every make, model and title   *)
(***************************************************************************)
TitleMakes == { "Mercedes", "mercedes-benz", "Benz", "Honda", "BMW", "Ford" }

TitleModels == { "CLS63", "CLS 63", "cls-63", "F 150", "F-150", "F150", "Civic" }

TitleTexts ==
    { "2014 Mercedes-Benz CLS 63 AMG", "2014 mercedes cls63", "Benz CLS-63 clean",
      "2015 Ford F-150 XLT", "2015 FORD F150", "ford f 150 4x4",
      "2020 Honda Civic LX", "Clean sedan" }

TitleInit ==
    /\ \E mk \in TitleMakes, md \in TitleModels :
         request = MakeRequest(None, Some(mk), Some(md), None, None, None)
    /\ \E t \in TitleTexts : listings = <<RawListing(1, Some(t))>>
    /\ details = <<>>
    /\ sourceFails = FALSE
    /\ pc = "title"
    /\ i = 1
    /\ car_listings = <<>>
    /\ relaxed_request = None
    /\ raised = FALSE
    /\ run = 1
    /\ passes = 0
    /\ resIdx = <<>>
    /\ evals = <<>>
    /\ firstResult = None
    /\ verdict = None

\* has_make, has_model and has_year as the title matching sets them
TitleSignals(req, tc, title) ==
    [ has_make |-> HasMake(tc.make, Upper(title)),
      has_model |-> HasModel(tc.model, Upper(title)),
      has_year |-> HasYear(req, title) ]

TitleCheck ==
    /\ pc = "title"
    /\ verdict' = Some(TitleSignals(request, ToCheck(request), listings[1].title[1]))
    /\ pc' = "matched"
    /\ UNCHANGED <<request, listings, details, sourceFails, i, car_listings,
                   relaxed_request, raised, run, passes, resIdx, evals, firstResult>>

TitleNext == TitleCheck

SpecTitle == TitleInit /\ [][TitleNext]_vars

(***************************************************************************)
(* Properties                                                              *)
(***************************************************************************)
PartKeywordSet ==
    { "PART", "SHELL", "PANEL", "DOOR", "BUMPER", "FENDER", "HOOD", "TRUNK",
      "SEAT", "WHEEL", "RIM", "HEADLIGHT", "TAILLIGHT", "OEM", "DRIVER REAR" }

HasPartKeyword(title) ==
    LET u == Upper(title) IN \E kw \in PartKeywordSet : Contains(kw, u)

\* the title of the raw listing an evaluation was about
EvalTitle(e) == listings[e.idx].title[1]

\* C1: a listing whose upper-cased title contains a part/accessory keyword
\* is rejected by every evaluation, strict or relaxed, whatever else matches,
\* and no such listing is in the list search_cars builds.
C1_PartsExcluded ==
    /\ \A k \in 1..Len(evals) : HasPartKeyword(EvalTitle(evals[k])) => ~evals[k].result
    /\ \A k \in 1..Len(car_listings) : ~HasPartKeyword(car_listings[k].title)

\* a part listing whose title has the requested make, model and year was
\* evaluated in the strict and in the relaxed pass
C1_Witness ==
    /\ pc = "done"
    /\ request.make # None /\ request.model # None /\ request.year # None
    /\ \E k, m \in 1..Len(evals) :
         /\ evals[k].pass = "strict" /\ evals[m].pass = "relaxed"
         /\ evals[k].idx = evals[m].idx
         /\ HasPartKeyword(EvalTitle(evals[k]))
         /\ HasMake(request.make, Upper(EvalTitle(evals[k])))
         /\ HasModel(request.model, Upper(EvalTitle(evals[k])))
         /\ HasYear(request, EvalTitle(evals[k]))

NoVehicleFilter(req) ==
    /\ req.make = None /\ req.model = None /\ req.year = None
    /\ req.max_miles = None /\ req.min_miles = None

\* the query names no known make and its only alphanumeric runs are
\* four-digit numbers
NoInferableToken(q) ==
    LET u == Upper(q)
        runs == FindAll(u, "")
    IN  /\ \A k \in 1..Len(common_makes) : ~Contains(common_makes[k], u)
        /\ \A k \in 1..Len(runs) : IsDigit(runs[k]) /\ Len(runs[k]) = 4

InfersNothing(req) ==
    \/ req.query = None
    \/ NoInferableToken(req.query[1])
    \/ extract_keywords_from_query(req.query[1]) = [make |-> None, model |-> None]

EvalTitleOf == listings[1].title[1]

EvalDetail == details[ListingId(1)]

\* C2: with no make, model, year or mileage bound and a query from which
\* neither make nor model is inferred, every listing whose title has no part
\* keyword is accepted.
C2_NoFilterAcceptsAll ==
    ( /\ pc = "evaluated"
      /\ NoVehicleFilter(request)
      /\ InfersNothing(request)
      /\ ~HasPartKeyword(EvalTitleOf) )
    => verdict[1].result

\* a listing that names no 2014 was accepted for the query "2014"
C2_Witness ==
    /\ pc = "evaluated"
    /\ NoVehicleFilter(request)
    /\ request.query = Some("2014")
    /\ EvalTitleOf = "2020 Honda Civic LX"
    /\ verdict[1].result

StrictAccepted == \E k \in 1..Len(evals) : evals[k].pass = "strict" /\ evals[k].result

\* C3: the relaxed pass runs exactly when there are raw listings and the
\* strict pass accepted none; it runs at most once, so a search has at most
\* two evaluation passes, each evaluating a listing at most once.
C3_RelaxedPassExactlyWhenEmpty ==
    /\ passes <= 2
    /\ passes = 2 => (Len(listings) > 0 /\ ~StrictAccepted)
    /\ (pc = "done" /\ ~raised /\ Len(listings) > 0 /\ ~StrictAccepted) => passes = 2
    /\ \A k, m \in 1..Len(evals) :
         (evals[k].pass = evals[m].pass /\ evals[k].idx = evals[m].idx) => k = m

\* the relaxed pass ran, accepted nothing, and the search ended
C3_Witness ==
    /\ pc = "done"
    /\ passes = 2
    /\ car_listings = <<>>
    /\ \E k \in 1..Len(evals) : evals[k].pass = "relaxed"

\* C4: the relaxed criteria equal the caller's criteria with year, max_miles
\* and min_miles cleared and every other field as it was, and no step of
\* search_cars changes the caller's criteria.
C4_RelaxedCopy ==
    [][ /\ request' = request
        /\ relaxed_request' # None =>
             relaxed_request'[1] = [request EXCEPT !.year = None, !.max_miles = None,
                                                   !.min_miles = None] ]_vars

\* a relaxed copy was built from criteria with query, make, model, year and
\* a mileage bound
C4_Witness ==
    /\ relaxed_request # None
    /\ request.query # None /\ request.make # None /\ request.model # None
    /\ request.year # None /\ request.max_miles # None
    /\ relaxed_request[1].year = None /\ relaxed_request[1].max_miles = None

\* the criteria of the relaxed pass, as the claim states them
RelaxedCriteria == [request EXCEPT !.year = None, !.max_miles = None, !.min_miles = None]

\* what one pass over the raw listings from position k on accepts under req
RECURSIVE AcceptedFrom(_, _)
AcceptedFrom(k, req) ==
    IF k > Len(listings) THEN <<>>
    ELSE (IF listings[k].title = None THEN <<>>
          ELSE LET l == [listing_id |-> listings[k].listingId,
                         title |-> listings[k].title[1],
                         vehicle_attributes |-> None]
                   v == MatchesFilters(l, req, details[l.listing_id])
               IN  IF v.result
                   THEN <<[l EXCEPT !.vehicle_attributes = v.vehicle_attributes]>>
                   ELSE <<>>)
         \o AcceptedFrom(k + 1, req)

ExpectedResult(strict) == IF strict # <<>> THEN strict ELSE AcceptedFrom(1, RelaxedCriteria)

\* C5: search_cars returns exactly what the strict pass accepts when that is
\* non-empty, otherwise exactly what the relaxed pass accepts; when both
\* accept nothing it returns an empty list, and it raises only when the
\* listing source raised.
C5_ReturnsStrictElseRelaxed ==
    pc = "done" =>
        /\ raised = sourceFails
        /\ ~raised => car_listings = ExpectedResult(AcceptedFrom(1, request))

\* no listing passed with year 2014, one passed once the year was dropped
C5_Witness ==
    /\ pc = "done"
    /\ request.year = Some(2014)
    /\ request.max_miles = None
    /\ passes = 2
    /\ Len(car_listings) >= 1
    /\ ~StrictAccepted

\* C6: the returned list is a subsequence of the raw listings: its entries
\* are raw listings at strictly increasing positions, so the input order is
\* kept and no raw listing is returned twice.
C6_ResultIsSubsequence ==
    /\ Len(resIdx) = Len(car_listings)
    /\ \A k \in 1..Len(car_listings) :
         /\ resIdx[k] \in 1..Len(listings)
         /\ car_listings[k].listing_id = listings[resIdx[k]].listingId
         /\ Some(car_listings[k].title) = listings[resIdx[k]].title
         /\ k > 1 => resIdx[k-1] < resIdx[k]

\* the relaxed pass returned two listings after the strict pass dropped
\* both of them and skipped nothing else
C6_Witness ==
    /\ pc = "done"
    /\ passes = 2
    /\ Len(car_listings) >= 2

EvalUpper == Upper(EvalTitleOf)

EvalToCheck == ToCheck(request)

EvalResolved == ResolveDetails(EvalDetail)

\* the mileage resolved for the listing: <<n>>, or <<>> when the detail
\* answer has no mileage that reads as an integer
ResolvedMiles(r) == IF r.vehicle_miles.t = "none" THEN None ELSE AsInt(r.vehicle_miles)

OutOfBounds(req, miles) ==
    \/ req.max_miles # None /\ miles > req.max_miles[1]
    \/ req.min_miles # None /\ miles < req.min_miles[1]

\* the title satisfies the make / the model that is checked, if any
TitleMakeOk(tc, u) == TruthyStr(tc.make) => HasMake(tc.make, u)

TitleModelOk(tc, u) == TruthyStr(tc.model) => HasModel(tc.model, u)

TitleYearOk(req, title) == req.year # None => Contains(IntToStr(req.year[1]), title)

\* make and model each match by title or by resolved attribute
MakeModelMatch(tc, u, r) ==
    /\ MakeMatch(tc.make, HasMake(tc.make, u), r.vehicle_make)
    /\ ModelMatch(tc.model, HasModel(tc.model, u), r.vehicle_model)

MileageRule(req, title, tc, u, r, miles, result) ==
    /\ (miles # None /\ OutOfBounds(req, miles[1])) => ~result
    /\ ( /\ miles # None /\ ~OutOfBounds(req, miles[1])
         /\ TitleMakeOk(tc, u) /\ TitleModelOk(tc, u) /\ TitleYearOk(req, title) ) => result
    /\ (miles = None /\ MakeModelMatch(tc, u, r)) => result

\* C8: under a mileage bound a listing with resolved mileage
\* outside the bounds is rejected, one with mileage on a bound is not
\* rejected for it, and one without resolved mileage is accepted whenever
\* make and model match.
C8_MileageRuleAsStated ==
    (pc = "evaluated" /\ HasMilesBound(request) /\ ~HasPartKeyword(EvalTitleOf)) =>
        MileageRule(request, EvalTitleOf, EvalToCheck, EvalUpper, EvalResolved,
                    ResolvedMiles(EvalResolved), verdict[1].result)

\* C9: for the query "CLS63 Mercedes 2014" without explicit make or model
\* the extractor yields MERCEDES and CLS63, and the listing titled
\* "2014 Mercedes-Benz CLS 63 AMG" whose detail fetch fails has make, model
\* and year found in its title and is accepted.
C9_ScenarioAccepted ==
    ( /\ pc = "evaluated"
      /\ request.query = Some("CLS63 Mercedes 2014")
      /\ request.make = None /\ request.model = None
      /\ EvalTitleOf = "2014 Mercedes-Benz CLS 63 AMG"
      /\ EvalDetail.kind \in FailureKinds )
    => /\ extract_keywords_from_query("CLS63 Mercedes 2014")
            = [make |-> Some("MERCEDES"), model |-> Some("CLS63")]
       /\ HasMake(EvalToCheck.make, EvalUpper)
       /\ HasModel(EvalToCheck.model, EvalUpper)
       /\ Contains("2014", EvalTitleOf)
       /\ verdict[1].result

FetchFailed == verdict[1].fetched /\ EvalDetail.kind \in FailureKinds

\* C10 as stated: when the detail fetch fails the listing is accepted
\* exactly when its title satisfies every make, model and year constraint.
C10_FetchFailureAsStated ==
    (pc = "evaluated" /\ ~HasPartKeyword(EvalTitleOf) /\ FetchFailed) =>
        ( verdict[1].result <=>
            /\ TitleMakeOk(EvalToCheck, EvalUpper)
            /\ TitleModelOk(EvalToCheck, EvalUpper)
            /\ TitleYearOk(request, EvalTitleOf) )

\* C10: when the detail fetch fails the listing is accepted exactly when
\* its title satisfies every make and model constraint; a requested year
\* that the title lacks does not reject it.
C10_FetchFailure ==
    (pc = "evaluated" /\ ~HasPartKeyword(EvalTitleOf) /\ FetchFailed) =>
        ( verdict[1].result <=>
            /\ TitleMakeOk(EvalToCheck, EvalUpper)
            /\ TitleModelOk(EvalToCheck, EvalUpper) )

\* the fetch failed for a listing whose title has make and model but not
\* the requested year, and the listing was accepted
C10_Witness ==
    /\ pc = "evaluated"
    /\ FetchFailed
    /\ request.year = Some(2014)
    /\ EvalTitleOf = "Mercedes CLS63 AMG"
    /\ TruthyStr(EvalToCheck.make) /\ TruthyStr(EvalToCheck.model)
    /\ verdict[1].result

\* the detail answer resolves nothing: the fetch raised, the payload lacks
\* 'data', 'listing' or 'vehicleAttributes', or the attributes are empty
FailureAnswers ==
    { Failure(k) : k \in FailureKinds } \cup { Payload(None), Payload(Some(EmptyDict)) }

EvalListing == ConvertListingToModel(listings[1])[1]

\* C11: a detail fetch that fails in any way (it raises, or the payload lacks
\* data, listing or vehicleAttributes) does not make the evaluation raise;
\* the evaluation returns a boolean that is the same for every kind of
\* failure: the decision on the title alone, with no attribute resolved.
C11_AnyFailureSameDecision ==
    ( /\ pc = "evaluated" /\ ~HasPartKeyword(EvalTitleOf)
      /\ verdict[1].fetched /\ EvalDetail \in FailureAnswers )
    => /\ ~verdict[1].raises
       /\ verdict[1].result \in BOOLEAN
       /\ verdict[1].result <=>
             (TitleMakeOk(EvalToCheck, EvalUpper) /\ TitleModelOk(EvalToCheck, EvalUpper))
       /\ \A d2 \in FailureAnswers :
             MatchesFilters(EvalListing, request, d2).result = verdict[1].result

\* the payload of a fetched listing had no 'listing' key and the listing
\* was accepted on its title
C11_Witness ==
    /\ pc = "evaluated"
    /\ verdict[1].fetched
    /\ EvalDetail = Failure("no_listing")
    /\ TruthyStr(EvalToCheck.make) /\ TruthyStr(EvalToCheck.model)
    /\ verdict[1].result

\* C13: under a min or max mileage bound every listing that is not a part
\* has its details fetched, also when its title has make, model and year.
C13_MileageBoundFetches ==
    (pc = "evaluated" /\ HasMilesBound(request) /\ ~HasPartKeyword(EvalTitleOf))
    => verdict[1].fetched

\* the details were fetched under a mileage bound for a title that has the
\* requested make, model and year
C13_Witness ==
    /\ pc = "evaluated"
    /\ request.min_miles # None
    /\ request.year = Some(2014)
    /\ TruthyStr(EvalToCheck.make) /\ TruthyStr(EvalToCheck.model)
    /\ HasMake(EvalToCheck.make, EvalUpper) /\ HasModel(EvalToCheck.model, EvalUpper)
    /\ HasYear(request, EvalTitleOf)
    /\ verdict[1].fetched

\* the title check failed for a requested make, model or year
TitleMiss(req, tc, u, title) ==
    ~TitleMakeOk(tc, u) \/ ~TitleModelOk(tc, u) \/ ~TitleYearOk(req, title)

\* C14: without a mileage bound the details of a listing that is not a part
\* are fetched exactly when the title check failed for a requested make,
\* model or year: never when every requested field is in the title, and
\* never when no constraint is active.
C14_FetchOnlyOnTitleMiss ==
    (pc = "evaluated" /\ ~HasMilesBound(request) /\ ~HasPartKeyword(EvalTitleOf))
    => /\ verdict[1].fetched <=> TitleMiss(request, EvalToCheck, EvalUpper, EvalTitleOf)
       /\ ( /\ NoVehicleFilter(request)
            /\ ~TruthyStr(EvalToCheck.make) /\ ~TruthyStr(EvalToCheck.model) )
          => ~verdict[1].fetched

\* make, model and year were requested and found in the title, and no
\* fetch was made
C14_Witness ==
    /\ pc = "evaluated"
    /\ ~HasMilesBound(request)
    /\ request.year = Some(2014)
    /\ TruthyStr(EvalToCheck.make) /\ TruthyStr(EvalToCheck.model)
    /\ ~TitleMiss(request, EvalToCheck, EvalUpper, EvalTitleOf)
    /\ ~verdict[1].fetched
    /\ verdict[1].result

\* the evaluations of raw listing idx in a pass that fetched its details
Fetches(pass, idx) ==
    { k \in 1..Len(evals) : evals[k].pass = pass /\ evals[k].idx = idx /\ evals[k].fetched }

\* C15: in one search the details of a listing are fetched at most once in
\* the strict pass and at most once in the relaxed pass, so at most twice,
\* and never for a listing rejected as a part.
C15_FetchAtMostOncePerPass ==
    \A idx \in 1..Len(listings) :
        /\ Cardinality(Fetches("strict", idx)) <= 1
        /\ Cardinality(Fetches("relaxed", idx)) <= 1
        /\ Cardinality(Fetches("strict", idx) \cup Fetches("relaxed", idx)) <= 2
        /\ (listings[idx].title # None /\ HasPartKeyword(listings[idx].title[1]))
             => Fetches("strict", idx) \cup Fetches("relaxed", idx) = {}

\* a search fetched the details of one listing in both passes and evaluated
\* a part listing in both passes without fetching
C15_Witness ==
    /\ pc = "done"
    /\ \E idx \in 1..Len(listings) :
         Fetches("strict", idx) # {} /\ Fetches("relaxed", idx) # {}
    /\ \E k \in 1..Len(evals) :
         evals[k].pass = "relaxed" /\ HasPartKeyword(EvalTitle(evals[k]))

\* a payload value that is a string not reading as an integer
Unparsable(v) == v.t = "str" /\ ParseInt(v.s) = None

Absent(v) == IF Unparsable(v) THEN PyNone ELSE v

\* the attribute dict with every unparsable year or mileage left out
WithoutUnparsable(va) ==
    [va EXCEPT !.vehicleYear = Absent(va.vehicleYear),
               !.vehicleMiles = Absent(va.vehicleMiles)]

\* C12: a resolved year or mileage that does not read as an integer is
\* treated as absent: the evaluation does not raise and decides as it does
\* for the same listing with that field missing.
C12_UnparsableAsAbsent ==
    ( /\ pc = "evaluated" /\ ~HasPartKeyword(EvalTitleOf) /\ verdict[1].fetched
      /\ EvalDetail.kind = "ok" /\ TruthyDict(EvalDetail.va)
      /\ Unparsable(EvalDetail.va[1].vehicleYear) \/ Unparsable(EvalDetail.va[1].vehicleMiles) )
    => /\ ~verdict[1].raises
       /\ verdict[1].result =
            MatchesFilters(EvalListing, request,
                           Payload(Some(WithoutUnparsable(EvalDetail.va[1])))).result

\* the integer a payload year or mileage stands for, None when it is
\* missing or does not read as an integer
NormalInt(v) ==
    CASE v.t = "none" -> None
      [] v.t = "int"  -> Some(v.n)
      [] v.t = "str"  -> ParseInt(v.s)

NormalStr(v) == IF v.t = "str" THEN Some(v.s) ELSE None

\* the normalised attributes of a non-empty attribute dict
Normalized(va) ==
    [ year |-> NormalInt(va.vehicleYear), make |-> NormalStr(va.vehicleMake),
      model |-> NormalStr(va.vehicleModel), miles |-> NormalInt(va.vehicleMiles) ]

\* the fetch was made and returned a non-empty attribute dict
FetchedAttrs == verdict[1].fetched /\ EvalDetail.kind = "ok" /\ TruthyDict(EvalDetail.va)

\* C16: an accepted listing whose detail fetch returned non-empty vehicle
\* attributes carries them, normalised; an accepted listing that was not
\* fetched or whose fetch gave no attributes carries none; a rejected
\* listing is left without attributes.
C16_AttributesAttached ==
    pc = "evaluated" =>
        /\ (verdict[1].result /\ FetchedAttrs)
             => verdict[1].vehicle_attributes = Some(Normalized(EvalDetail.va[1]))
        /\ (verdict[1].result /\ ~FetchedAttrs) => verdict[1].vehicle_attributes = None
        /\ ~verdict[1].result => verdict[1].vehicle_attributes = None

\* a listing accepted on its title, its attribute year disagreeing with
\* nothing requested, carries the fetched attributes with the year and the
\* mileage as integers
C16_Witness ==
    /\ pc = "evaluated"
    /\ verdict[1].result
    /\ FetchedAttrs
    /\ EvalDetail.va[1].vehicleYear = PyStr("2014")
    /\ EvalDetail.va[1].vehicleMiles = PyStr("45000")
    /\ EvalDetail.va[1].vehicleMake = PyNone
    /\ verdict[1].vehicle_attributes # None
    /\ verdict[1].vehicle_attributes[1].year = Some(2014)
    /\ verdict[1].vehicle_attributes[1].miles = Some(45000)

NormData == details[ListingId(1)].va

\* C17: from_dict does not raise; an empty or missing payload gives no
\* attributes object; otherwise a year or mileage that is a numeric string
\* becomes that integer, an integer stays, and a string that does not read
\* as an integer becomes None.
C17_FromDictNormalizes ==
    pc = "normalized" =>
        /\ ~verdict[1].raises
        /\ ~TruthyDict(NormData) => verdict[1].vehicle_attributes = None
        /\ TruthyDict(NormData) =>
             /\ verdict[1].vehicle_attributes # None
             /\ verdict[1].vehicle_attributes[1].year = NormalInt(NormData[1].vehicleYear)
             /\ verdict[1].vehicle_attributes[1].miles = NormalInt(NormData[1].vehicleMiles)

\* the requested value is in the resolved attribute
AttrHasMake(tc, r) ==
    TruthyStr(r.vehicle_make) /\ Contains(Upper(tc.make[1]), r.vehicle_make[1])

AttrHasModel(tc, r) ==
    TruthyStr(r.vehicle_model) /\ Contains(Upper(tc.model[1]), r.vehicle_model[1])

EvalMakeMatch == MakeMatch(EvalToCheck.make, HasMake(EvalToCheck.make, EvalUpper),
                           EvalResolved.vehicle_make)

EvalModelMatch == ModelMatch(EvalToCheck.model, HasModel(EvalToCheck.model, EvalUpper),
                             EvalResolved.vehicle_model)

\* C18: the make match and the model match of an evaluation are each true
\* when the field is found in the title, whatever the resolved attribute
\* says, and true when the field is missing from the title but the
\* resolved attribute contains the requested value; a listing is accepted
\* only if both match.
C18_PerFieldMatch ==
    (pc = "evaluated" /\ ~HasPartKeyword(EvalTitleOf) /\ verdict[1].fetched) =>
        /\ TruthyStr(EvalToCheck.make) =>
             /\ HasMake(EvalToCheck.make, EvalUpper) => EvalMakeMatch
             /\ AttrHasMake(EvalToCheck, EvalResolved) => EvalMakeMatch
        /\ TruthyStr(EvalToCheck.model) =>
             /\ HasModel(EvalToCheck.model, EvalUpper) => EvalModelMatch
             /\ AttrHasModel(EvalToCheck, EvalResolved) => EvalModelMatch
        /\ verdict[1].result => (EvalMakeMatch /\ EvalModelMatch)

\* an attribute year was resolved: the payload has a year that is not empty
AttrYearResolved(r) == Truthy(r.vehicle_year)

\* the resolved attribute year is the requested year
AttrYearSame(req, r) == NormalInt(r.vehicle_year) = Some(req.year[1])

\* C19: when make and model match and mileage does not exclude, a listing
\* under a year constraint is rejected exactly when the title lacks the
\* year and an attribute year was resolved that differs from it; it is
\* accepted when the title has the year or no attribute year was resolved.
C19_YearRule ==
    ( /\ pc = "evaluated" /\ ~HasPartKeyword(EvalTitleOf)
      /\ request.year # None
      /\ EvalMakeMatch /\ EvalModelMatch
      /\ ~(verdict[1].fetched /\ MilesExcluded(request, EvalResolved.vehicle_miles)) )
    => ( ~verdict[1].result <=>
           /\ ~Contains(IntToStr(request.year[1]), EvalTitleOf)
           /\ verdict[1].fetched
           /\ AttrYearResolved(EvalResolved)
           /\ ~AttrYearSame(request, EvalResolved) )

\* what the query gives for make and model, nothing without a query
Inferred(req) ==
    IF TruthyStr(req.query) THEN extract_keywords_from_query(req.query[1])
    ELSE [make |-> None, model |-> None]

\* the explicit field when given, else the inferred one
ExplicitElse(explicit, inferred) == IF explicit # None THEN explicit ELSE inferred

\* C20: the make and the model an evaluation checks are the explicit
\* criteria fields when given and the values inferred from the query
\* otherwise; an explicit field is never replaced by an inferred one, which
\* shows when the fetch fails: the listing is then accepted exactly when
\* its title has the make and the model so chosen.
C20_ExplicitOverInferred ==
    (pc = "evaluated" /\ ~HasPartKeyword(EvalTitleOf)) =>
        /\ EvalToCheck.make = ExplicitElse(request.make, Inferred(request).make)
        /\ EvalToCheck.model = ExplicitElse(request.model, Inferred(request).model)
        /\ FetchFailed =>
             ( verdict[1].result <=>
                 /\ TitleMakeOk([make |-> ExplicitElse(request.make, Inferred(request).make),
                                 model |-> None], EvalUpper)
                 /\ TitleModelOk([make |-> None,
                                  model |-> ExplicitElse(request.model, Inferred(request).model)],
                                 EvalUpper) )

\* the explicit Mercedes-Benz CLS63 held against the query "Honda Civic":
\* the Honda title was rejected when the fetch failed
C20_Witness ==
    /\ pc = "evaluated"
    /\ request.query = Some("Honda Civic")
    /\ request.make = Some("Mercedes-Benz") /\ request.model = Some("CLS63")
    /\ EvalTitleOf = "2020 Honda Civic LX"
    /\ FetchFailed
    /\ ~verdict[1].result

\* the positions of the make list whose entry occurs in the text
MakeHits(u) == { k \in 1..Len(common_makes) : Contains(common_makes[k], u) }

ExtractedQuery == Upper(request.query[1])

\* C21: the make returned for a query is the first entry of the make list,
\* in list order, that is a substring of the upper-cased query, and None
\* when no entry is.
C21_FirstListedMake ==
    pc = "extracted" =>
        IF MakeHits(ExtractedQuery) = {}
        THEN verdict[1].make = None
        ELSE verdict[1].make =
               Some(common_makes[CHOOSE k \in MakeHits(ExtractedQuery) :
                                    \A j \in MakeHits(ExtractedQuery) : k <= j])

\* HONDA comes first in the query and BENZ first in the list: BENZ is
\* returned
C21_Witness ==
    /\ pc = "extracted"
    /\ request.query = Some("Honda Benz Civic")
    /\ verdict[1].make = Some("BENZ")

\* the runs of a text that are not four-digit numbers
RunsOf(text) ==
    LET runs == FindAll(text, "")
    IN  { runs[k] : k \in { j \in 1..Len(runs) : ~(IsDigit(runs[j]) /\ Len(runs[j]) = 4) } }

\* the upper-cased query without the returned make and without hyphens
Remainder(u, make) ==
    Replace(IF make # None THEN Replace(u, make[1], "") ELSE u, "-", "")

\* C22: the model returned for a query is a longest alphanumeric run, other
\* than a four-digit number, of the upper-cased query with the make and all
\* hyphens removed; it is None exactly when there is no such run, and the
\* empty query gives (None, None).
C22_LongestRunIsModel ==
    pc = "extracted" =>
        LET cands == RunsOf(Remainder(ExtractedQuery, verdict[1].make))
        IN  /\ verdict[1].model = None <=> cands = {}
            /\ verdict[1].model # None =>
                 /\ verdict[1].model[1] \in cands
                 /\ \A c \in cands : Len(c) <= Len(verdict[1].model[1])
            /\ request.query = Some("") => verdict[1] = [make |-> None, model |-> None]

CheckedTitle == Upper(listings[1].title[1])

\* C23: a requested make is found in a title when its upper-cased form is a
\* substring of the upper-cased title; a requested MERCEDES, MERCEDES-BENZ
\* or BENZ, in any case, is found exactly when the title contains MERCEDES
\* or BENZ, and any other make exactly when the title contains it.
C23_TitleMake ==
    pc = "matched" =>
        /\ Contains(Upper(request.make[1]), CheckedTitle) => verdict[1].has_make
        /\ IF Upper(request.make[1]) \in {"MERCEDES", "MERCEDES-BENZ", "BENZ"}
           THEN verdict[1].has_make <=>
                  (Contains("MERCEDES", CheckedTitle) \/ Contains("BENZ", CheckedTitle))
           ELSE verdict[1].has_make <=> Contains(Upper(request.make[1]), CheckedTitle)

\* the make mercedes-benz was found in a title that says Benz only
C23_Witness ==
    /\ pc = "matched"
    /\ request.make = Some("mercedes-benz")
    /\ listings[1].title = Some("Benz CLS-63 clean")
    /\ verdict[1].has_make

\* the five variants of an upper-cased model
ModelVariants(m) ==
    { m, Replace(m, " ", ""), Replace(m, "-", ""), Replace(m, " ", "-"), Replace(m, "-", " ") }

OwnRecord(k, req) ==
    LET l == [listing_id |-> listings[k].listingId,
              title |-> listings[k].title[1],
              vehicle_attributes |-> None]
    IN  [l EXCEPT !.vehicle_attributes =
                     MatchesFilters(l, req, details[l.listing_id]).vehicle_attributes]

\* the raw listing k is accepted by its own evaluation under req
OwnAccept(k, req) ==
    /\ listings[k].title # None
    /\ MatchesFilters([listing_id |-> listings[k].listingId,
                       title |-> listings[k].title[1],
                       vehicle_attributes |-> None],
                      req, details[listings[k].listingId]).result

C26_AtLeastAsPermissive ==
    ( /\ pc = "evaluated" /\ ~HasPartKeyword(EvalTitleOf)
      /\ OldMatchesFilters(EvalListing, request, EvalDetail).result )
    => verdict[1].result

\* the resolved attributes carry year, make and model all together
FullyResolved(r) ==
    Truthy(r.vehicle_year) /\ TruthyStr(r.vehicle_make) /\ TruthyStr(r.vehicle_model)

EvalYearMatch == YearMatch(request, HasYear(request, EvalTitleOf), EvalResolved.vehicle_year)

\* C27: a listing whose resolved attributes carry year, make and model is
\* accepted if and only if mileage does not exclude it and the year, make
\* and model matches all hold.
C27_FullAttributes ==
    ( /\ pc = "evaluated" /\ ~HasPartKeyword(EvalTitleOf)
      /\ verdict[1].fetched /\ FullyResolved(EvalResolved) )
    => ( verdict[1].result <=>
           /\ ~MilesExcluded(request, EvalResolved.vehicle_miles)
           /\ EvalYearMatch /\ EvalMakeMatch /\ EvalModelMatch )

\* the mileage the detail source reports for raw listing idx: <<n>>, or
\* <<>> when it reports none that reads as an integer
ReportedMiles(idx) == ResolvedMiles(ResolveDetails(details[ListingId(idx)]))

\* every returned listing has no reported mileage outside the bounds
ResultsWithinBounds ==
    \A k \in 1..Len(car_listings) :
        \/ ReportedMiles(resIdx[k]) = None
        \/ ~OutOfBounds(request, ReportedMiles(resIdx[k])[1])

\* C28 as stated: no returned listing has a reported mileage outside the
\* caller's bounds, whichever pass accepted it.
C28_WithinBoundsAsStated == (pc = "done" /\ ~raised) => ResultsWithinBounds

\* C28: a listing returned from the strict pass never has a reported
\* mileage, readable as an integer, outside the caller's min_miles and
\* max_miles bounds.
C28_StrictWithinBounds == (pc = "done" /\ ~raised /\ passes = 1) => ResultsWithinBounds

C28_Witness ==
    /\ pc = "done" /\ ~raised /\ passes = 1
    /\ request.max_miles # None
    /\ \E k \in 1..Len(car_listings) :
         /\ ReportedMiles(resIdx[k]) # None
         /\ ReportedMiles(resIdx[k])[1] <= request.max_miles[1]

\* the model that is checked, or one of its space/hyphen variants, is in
\* the upper-cased title or in the resolved attribute model
ModelFound(tc, u, r) ==
    \E v \in ModelVariants(Upper(tc.model[1])) :
        \/ Contains(v, u)
        \/ TruthyStr(r.vehicle_model) /\ Contains(v, r.vehicle_model[1])

\* C29: a listing accepted under a model constraint, explicit or inferred,
\* has the requested model or one of its space/hyphen variants in its
\* upper-cased title or in its upper-cased resolved attribute model,
\* whatever the requested model is.
C29_AcceptedHasModel ==
    (pc = "evaluated" /\ verdict[1].result /\ TruthyStr(EvalToCheck.model)) =>
        ModelFound(EvalToCheck, EvalUpper,
                   IF verdict[1].fetched THEN EvalResolved ELSE NoAttrs)

\* the relaxed evaluation of the same listing with the same detail answer
RelaxedVerdict == MatchesFilters(EvalListing, RelaxedRequest(request), EvalDetail)

\* C30: a listing that the evaluation accepts under the given criteria is
\* accepted under the relaxed criteria too, with the detail source
\* answering the same way, even when the relaxed evaluation skips the
\* fetch.
C30_RelaxingLosesNothing ==
    (pc = "evaluated" /\ verdict[1].result) => RelaxedVerdict.result

\* a listing accepted after a fetch under a mileage bound that the relaxed
\* evaluation accepts without fetching
C30_Witness ==
    /\ pc = "evaluated" /\ verdict[1].result /\ verdict[1].fetched
    /\ HasMilesBound(request)
    /\ RelaxedVerdict.result /\ ~RelaxedVerdict.fetched

====
